---- MODULE Spec2Model ----
(***************************************************************************)
(* Model of the achievement subsystem of the map server                    *)
(* (src/map/achievement.cpp): the per-player progress array with its       *)
(* incomplete/completed partition, the objective update engine, the level  *)
(* calculator and the reward claim flow.                                   *)
(***************************************************************************)
EXTENDS Integers, Sequences, FiniteSets, TLC

VARIABLES
    sd,                     \* the player's session: achievement_data, titles, and what the last handler sent
    achievement_db,         \* the catalog, in its iteration order
    achievement_level_db,   \* the level thresholds, level L at position L + 1
    inter,                  \* reward requests sent to the inter server and not answered yet
    last                    \* the handler that ran last, with its arguments

vars == <<sd, achievement_db, achievement_level_db, inter, last>>

(***************************************************************************)
(* Bounds of the model.                                                    *)
(***************************************************************************)
MaxTime == 1
MaxArg == 1
MaxPending == 2
MaxLevels == 2
MaxPoints == 3
MaxScore == 2
MaxTitles == 2
MaxValue == 2
MaxDeps == 3

(***************************************************************************)
(* Program constants.                                                      *)
(***************************************************************************)
MAX_ACHIEVEMENT_OBJECTIVES == 10

Slots == 0 .. (MAX_ACHIEVEMENT_OBJECTIVES - 1)
ZeroCount == [k \in Slots |-> 0]
NoTargets == [k \in {} |-> 0]

CondOnlyGroups ==
    {"AG_ADD_FRIEND", "AG_BABY", "AG_CHAT_COUNT", "AG_CHAT_CREATE", "AG_CHAT_DYING",
     "AG_GET_ITEM", "AG_GET_ZENY", "AG_GOAL_LEVEL", "AG_GOAL_STATUS", "AG_JOB_CHANGE",
     "AG_MARRY", "AG_PARTY", "AG_REFINE_FAIL", "AG_REFINE_SUCCESS"}

(***************************************************************************)
(* Catalog entries (s_achievement_db).  condition and script say whether   *)
(* the entry carries one; what a guard evaluates to is an input of the     *)
(* handler that evaluates it.                                              *)
(***************************************************************************)
Def(id, group, targets, deps, cond, score, script, title) ==
    [achievement_id |-> id, group |-> group, targets |-> targets,
     dependent_ids |-> deps, condition |-> cond, score |-> score,
     rewards |-> [script |-> script, title_id |-> title]]

Target(count, mob) == [count |-> count, mob |-> mob]

DbIds == {achievement_db[k].achievement_id : k \in 1 .. Len(achievement_db)}

\* achievement_db.exists( id )
DbExists(id) == id \in DbIds

\* achievement_db.find( id ), for an id that exists
DbFind(id) == achievement_db[CHOOSE k \in 1 .. Len(achievement_db) : achievement_db[k].achievement_id = id]

(***************************************************************************)
(* struct achievement and the ARR_FIND scan (indices are 0-based as in the *)
(* source; the sequence is 1-based).                                       *)
(***************************************************************************)
NewAchievement(id, score) ==
    [achievement_id |-> id, count |-> ZeroCount, completed |-> 0, rewarded |-> 0, score |-> score]

RECURSIVE ArrFind(_, _, _, _)
ArrFind(arr, lo, hi, id) ==
    IF lo >= hi THEN hi
    ELSE IF arr[lo + 1].achievement_id = id THEN lo
    ELSE ArrFind(arr, lo + 1, hi, id)

Count(s) == Len(s.achievements)

\* clif_achievement_update( sd, record, completed count )
PktUpdate(rec, n) == [type |-> "update", id |-> rec.achievement_id, rec |-> rec, n |-> n]
\* clif_achievement_reward_ack( fd, result, id )
PktAck(ok, id) == [type |-> "reward_ack", id |-> id, rec |-> NewAchievement(id, 0), n |-> ok]
\* clif_achievement_list_all( sd )
PktList == [type |-> "list_all", id |-> 0, rec |-> NewAchievement(0, 0), n |-> 0]

Send(s, pkt) == [s EXCEPT !.fd = Append(@, pkt)]

CompletedIds(s) ==
    {s.achievements[k].achievement_id : k \in {j \in 1 .. Count(s) : s.achievements[j].completed > 0}}

\* achievement_add without the memmove that makes room before the completed block:
\* the new record overwrites the first completed one, the added slot stays zeroed
achievement_add_nomove(s, id) ==
    IF ~DbExists(id) THEN [sd |-> s, ok |-> FALSE, index |-> 0]
    ELSE IF ArrFind(s.achievements, 0, Count(s), id) < Count(s) THEN [sd |-> s, ok |-> FALSE, index |-> 0]
    ELSE
        LET index == s.incompleteCount
            rec == NewAchievement(id, DbFind(id).score)
            grown == Append(s.achievements, NewAchievement(0, 0))
            arr == [grown EXCEPT ![index + 1] = rec]
            s1 == [s EXCEPT !.achievements = arr,
                            !.incompleteCount = @ + 1,
                            !.save = TRUE,
                            !.hist = Append(@, [id |-> id, done |-> CompletedIds(s)])]
        IN [sd |-> Send(s1, PktUpdate(rec, Len(arr) - s1.incompleteCount)), ok |-> TRUE, index |-> index]

\* achievement_add that leaves the score of the new record as memset made it
achievement_add_noscore(s, id) ==
    IF ~DbExists(id) THEN [sd |-> s, ok |-> FALSE, index |-> 0]
    ELSE IF ArrFind(s.achievements, 0, Count(s), id) < Count(s) THEN [sd |-> s, ok |-> FALSE, index |-> 0]
    ELSE
        LET index == s.incompleteCount
            rec == NewAchievement(id, 0)
            arr == SubSeq(s.achievements, 1, index) \o <<rec>> \o SubSeq(s.achievements, index + 1, Count(s))
            s1 == [s EXCEPT !.achievements = arr,
                            !.incompleteCount = @ + 1,
                            !.save = TRUE,
                            !.hist = Append(@, [id |-> id, done |-> CompletedIds(s)])]
        IN [sd |-> Send(s1, PktUpdate(rec, Len(arr) - s1.incompleteCount)), ok |-> TRUE, index |-> index]

(***************************************************************************)
(* achievement_add: the new record goes to index incompleteCount, the      *)
(* completed block is moved up by one.  hist keeps, for every record       *)
(* created by the running handler, the ids that were completed then.       *)
(***************************************************************************)
achievement_add(s, id) ==
    IF ~DbExists(id) THEN [sd |-> s, ok |-> FALSE, index |-> 0]
    ELSE IF ArrFind(s.achievements, 0, Count(s), id) < Count(s) THEN [sd |-> s, ok |-> FALSE, index |-> 0]
    ELSE
        LET index == s.incompleteCount
            rec == NewAchievement(id, DbFind(id).score)
            arr == SubSeq(s.achievements, 1, index) \o <<rec>> \o SubSeq(s.achievements, index + 1, Count(s))
            s1 == [s EXCEPT !.achievements = arr,
                            !.incompleteCount = @ + 1,
                            !.save = TRUE,
                            !.hist = Append(@, [id |-> id, done |-> CompletedIds(s)])]
        IN [sd |-> Send(s1, PktUpdate(rec, Len(arr) - s1.incompleteCount)), ok |-> TRUE, index |-> index]

\* achievement_remove that lowers incompleteCount for every removed record
achievement_remove_dec(s, id) ==
    IF ~DbExists(id) THEN [sd |-> s, ok |-> FALSE]
    ELSE
        LET i == ArrFind(s.achievements, 0, Count(s), id) IN
        IF i = Count(s) THEN [sd |-> s, ok |-> FALSE]
        ELSE
            LET inc == s.incompleteCount - 1
                arr == SubSeq(s.achievements, 1, i) \o SubSeq(s.achievements, i + 2, Count(s))
                s1 == [s EXCEPT !.achievements = arr, !.incompleteCount = inc, !.save = TRUE]
            IN [sd |-> Send(s1, PktUpdate(NewAchievement(id, 0), Len(arr) - inc)), ok |-> TRUE]

\* achievement_remove that flags the log for saving before it looks for the record
achievement_remove_dirty(s, id) ==
    IF ~DbExists(id) THEN [sd |-> s, ok |-> FALSE]
    ELSE
        LET i == ArrFind(s.achievements, 0, Count(s), id) IN
        IF i = Count(s) THEN [sd |-> [s EXCEPT !.save = TRUE], ok |-> FALSE]
        ELSE
            LET inc == IF s.achievements[i + 1].completed = 0 THEN s.incompleteCount - 1 ELSE s.incompleteCount
                arr == SubSeq(s.achievements, 1, i) \o SubSeq(s.achievements, i + 2, Count(s))
                s1 == [s EXCEPT !.achievements = arr, !.incompleteCount = inc, !.save = TRUE]
            IN [sd |-> Send(s1, PktUpdate(NewAchievement(id, 0), Len(arr) - inc)), ok |-> TRUE]

(***************************************************************************)
(* achievement_remove                                                      *)
(***************************************************************************)
achievement_remove(s, id) ==
    IF ~DbExists(id) THEN [sd |-> s, ok |-> FALSE]
    ELSE
        LET i == ArrFind(s.achievements, 0, Count(s), id) IN
        IF i = Count(s) THEN [sd |-> s, ok |-> FALSE]
        ELSE
            LET inc == IF s.achievements[i + 1].completed = 0 THEN s.incompleteCount - 1 ELSE s.incompleteCount
                arr == SubSeq(s.achievements, 1, i) \o SubSeq(s.achievements, i + 2, Count(s))
                s1 == [s EXCEPT !.achievements = arr, !.incompleteCount = inc, !.save = TRUE]
            IN [sd |-> Send(s1, PktUpdate(NewAchievement(id, 0), Len(arr) - inc)), ok |-> TRUE]

(***************************************************************************)
(* achievement_done and achievement_check_dependent                        *)
(***************************************************************************)
\* achievement_done that only looks for the record, not for its completion
achievement_done_present(s, id) ==
    \E k \in 1 .. Count(s) : s.achievements[k].achievement_id = id

achievement_done(s, id) ==
    \E k \in 1 .. Count(s) :
        s.achievements[k].achievement_id = id /\ s.achievements[k].completed > 0

achievement_check_dependent(s, id) ==
    IF ~DbExists(id) THEN FALSE
    ELSE LET deps == DbFind(id).dependent_ids
         IN \A k \in 1 .. Len(deps) : achievement_done(s, deps[k])

(***************************************************************************)
(* The level walk of achievement_level: the level and the two numbers      *)
(* returned in info[].                                                     *)
(***************************************************************************)
RECURSIVE SumScore(_, _)
SumScore(arr, k) ==
    IF k > Len(arr) THEN 0
    ELSE (IF arr[k].completed > 0 THEN arr[k].score ELSE 0) + SumScore(arr, k + 1)

\* The level walk with the comparison turned around
RECURSIVE LevelWalk_lt(_, _, _)
LevelWalk_lt(T, total, L) ==
    LET points == T[L + 1] IN
    IF total < points
    THEN IF L + 1 >= Len(T)
         THEN [level |-> L + 1, left |-> total - points, right |-> 0]
         ELSE LevelWalk_lt(T, total, L + 1)
    ELSE IF L = 0
         THEN [level |-> 0, left |-> total, right |-> points]
         ELSE [level |-> L, left |-> total - T[L], right |-> points - T[L]]

\* The level walk that reports the raw total score above level 0 too
RECURSIVE LevelWalk_raw(_, _, _)
LevelWalk_raw(T, total, L) ==
    LET points == T[L + 1] IN
    IF total > points
    THEN IF L + 1 >= Len(T)
         THEN [level |-> L + 1, left |-> total - points, right |-> 0]
         ELSE LevelWalk_raw(T, total, L + 1)
    ELSE IF L = 0
         THEN [level |-> 0, left |-> total, right |-> points]
         ELSE [level |-> L, left |-> total, right |-> points - T[L]]

\* The level walk that also leaves a level when the score equals its threshold
RECURSIVE LevelWalk_ge(_, _, _)
LevelWalk_ge(T, total, L) ==
    LET points == T[L + 1] IN
    IF total >= points
    THEN IF L + 1 >= Len(T)
         THEN [level |-> L + 1, left |-> total - points, right |-> 0]
         ELSE LevelWalk_ge(T, total, L + 1)
    ELSE IF L = 0
         THEN [level |-> 0, left |-> total, right |-> points]
         ELSE [level |-> L, left |-> total - T[L], right |-> points - T[L]]

RECURSIVE LevelWalk(_, _, _)
LevelWalk(T, total, L) ==
    LET points == T[L + 1] IN
    IF total > points
    THEN IF L + 1 >= Len(T)
         THEN [level |-> L + 1, left |-> total - points, right |-> 0]
         ELSE LevelWalk(T, total, L + 1)
    ELSE IF L = 0
         THEN [level |-> 0, left |-> total, right |-> points]
         ELSE [level |-> L, left |-> total - T[L], right |-> points - T[L]]

(***************************************************************************)
(* The handlers below call each other: a completion recomputes the level,  *)
(* a level change raises an AG_GOAL_ACHIEVE event, an event may complete   *)
(* records, a completion scans the catalog for entries it unlocked.        *)
(* env.t is the value time(NULL) returns while the handler runs and        *)
(* env.cond[id] what the guard of entry id evaluates to.                   *)
(***************************************************************************)
RECURSIVE achievement_level(_, _, _)
RECURSIVE achievement_check_groups(_, _, _)
RECURSIVE CheckGroupsScan(_, _, _)
RECURSIVE achievement_update_achievement(_, _, _, _)
RECURSIVE achievement_update_objectives(_, _, _, _, _)
RECURSIVE ObjectivesScan(_, _, _, _, _)
RECURSIVE achievement_update_objective(_, _, _, _)

achievement_level(s, flag, env) ==
    LET total == SumScore(s.achievements, 1)
        old_level == s.level
        w == LevelWalk(achievement_level_db, total, 0)
        s1 == [s EXCEPT !.total_score = total, !.level = w.level, !.info = <<w.left, w.right>>]
    IN IF flag /\ old_level # w.level
       THEN achievement_update_objective(s1, "AG_GOAL_ACHIEVE", <<>>, env)
       ELSE s1

\* achievement_check_groups that leaves out the adventure group
achievement_check_groups_noadv(s, ad, env) ==
    IF ad.group \notin {"AG_BATTLE", "AG_TAMING"} THEN s
    ELSE IF ad.dependent_ids = <<>> \/ ad.condition THEN s
    ELSE IF ArrFind(s.achievements, 0, Count(s), ad.achievement_id) = Count(s)
              /\ achievement_check_dependent(s, ad.achievement_id)
         THEN achievement_update_achievement(achievement_add(s, ad.achievement_id).sd,
                                             ad.achievement_id, TRUE, env).sd
         ELSE s

\* achievement_check_groups that also completes a record the player already holds
achievement_check_groups_held(s, ad, env) ==
    IF ad.group \notin {"AG_BATTLE", "AG_TAMING", "AG_ADVENTURE"} THEN s
    ELSE IF ad.dependent_ids = <<>> \/ ad.condition THEN s
    ELSE IF achievement_check_dependent(s, ad.achievement_id)
         THEN achievement_update_achievement(achievement_add(s, ad.achievement_id).sd,
                                             ad.achievement_id, TRUE, env).sd
         ELSE s

achievement_check_groups(s, ad, env) ==
    IF ad.group \notin {"AG_BATTLE", "AG_TAMING", "AG_ADVENTURE"} THEN s
    ELSE IF ad.dependent_ids = <<>> \/ ad.condition THEN s
    ELSE IF ArrFind(s.achievements, 0, Count(s), ad.achievement_id) = Count(s)
              /\ achievement_check_dependent(s, ad.achievement_id)
         THEN achievement_update_achievement(achievement_add(s, ad.achievement_id).sd,
                                             ad.achievement_id, TRUE, env).sd
         ELSE s

\* for (auto &ach : achievement_db) achievement_check_groups(sd, ach.second.get());
CheckGroupsScan(s, k, env) ==
    IF k > Len(achievement_db) THEN s
    ELSE CheckGroupsScan(achievement_check_groups(s, achievement_db[k], env), k + 1, env)

\* A completion that leaves the objective counts where they were
FillTargets_keep(count, targets) == count

\* The objective counts of a record set to the required counts of its definition
FillTargets(count, targets) ==
    [k \in Slots |-> IF k \in DOMAIN targets THEN targets[k].count ELSE count[k]]

\* The record at index i exchanged with the one at index j
SwapRecords(arr, i, j) == [arr EXCEPT ![i + 1] = arr[j + 1], ![j + 1] = arr[i + 1]]

achievement_update_achievement(s, id, complete, env) ==
    IF ~DbExists(id) THEN [sd |-> s, ok |-> FALSE]
    ELSE
        LET i == ArrFind(s.achievements, 0, s.incompleteCount, id) IN
        IF i = s.incompleteCount THEN [sd |-> s, ok |-> FALSE]
        ELSE IF s.achievements[i + 1].completed > 0 THEN [sd |-> s, ok |-> FALSE]
        ELSE IF complete
        THEN
            LET adb == DbFind(id)
                done == [s.achievements[i + 1] EXCEPT !.count = FillTargets(@, adb.targets),
                                                      !.completed = env.t]
                inc == s.incompleteCount - 1
                a1 == [s.achievements EXCEPT ![i + 1] = done]
                a2 == IF i < inc THEN SwapRecords(a1, i, inc) ELSE a1
                s1 == [s EXCEPT !.achievements = a2, !.incompleteCount = inc]
                s2 == achievement_level(s1, TRUE, env)
                s3 == CheckGroupsScan(s2, 1, env)
                j == ArrFind(s3.achievements, s3.incompleteCount, Count(s3), id)
                s4 == Send(s3, PktUpdate(s3.achievements[j + 1], Count(s3) - s3.incompleteCount))
            IN [sd |-> [s4 EXCEPT !.save = TRUE], ok |-> TRUE]
        ELSE
            LET s1 == Send(s, PktUpdate(s.achievements[i + 1], Count(s) - s.incompleteCount))
            IN [sd |-> [s1 EXCEPT !.save = TRUE], ok |-> TRUE]

(***************************************************************************)
(* The per-group rule of achievement_update_objectives (the switch): ok is *)
(* FALSE where the code returns false, guard is TRUE where it got as far   *)
(* as achievement_check_condition, count is the new current_count.         *)
(***************************************************************************)
\* Completion only for counts above the requirement
AllTargetsMet_gt(count, targets) == \A k \in DOMAIN targets : count[k] > targets[k].count

AllTargetsMet(count, targets) == \A k \in DOMAIN targets : count[k] >= targets[k].count

\* The switch with the result of the guard of a condition-only entry ignored
GroupRule_noguard(ad, group, current_count, update_count, env) ==
    IF group \in CondOnlyGroups
    THEN [ok |-> ad.condition, guard |-> ad.condition,
          changed |-> TRUE, complete |-> TRUE, count |-> current_count]
    ELSE IF group = "AG_SPEND_ZENY"
    THEN LET cnt == [k \in Slots |->
                        IF k \in DOMAIN ad.targets /\ current_count[k] < ad.targets[k].count
                        THEN current_count[k] + update_count[k]
                        ELSE current_count[k]]
         IN [ok |-> ad.targets # NoTargets /\ ad.condition /\ env.cond[ad.achievement_id],
             guard |-> ad.targets # NoTargets /\ ad.condition,
             changed |-> TRUE, complete |-> AllTargetsMet(cnt, ad.targets), count |-> cnt]
    ELSE IF group \in {"AG_BATTLE", "AG_TAMING"}
    THEN LET hit == {k \in DOMAIN ad.targets :
                        ad.targets[k].mob = update_count[0] /\ current_count[k] < ad.targets[k].count}
             cnt == [k \in Slots |-> IF k \in hit THEN current_count[k] + 1 ELSE current_count[k]]
         IN [ok |-> ad.targets # NoTargets /\ hit # {}, guard |-> FALSE,
             changed |-> TRUE, complete |-> AllTargetsMet(cnt, ad.targets), count |-> cnt]
    ELSE [ok |-> TRUE, guard |-> FALSE, changed |-> FALSE, complete |-> FALSE, count |-> current_count]

\* The switch with a kill counted for every slot, whatever monster the slot asks for
GroupRule_anymob(ad, group, current_count, update_count, env) ==
    IF group \in CondOnlyGroups
    THEN [ok |-> ad.condition /\ env.cond[ad.achievement_id], guard |-> ad.condition,
          changed |-> TRUE, complete |-> TRUE, count |-> current_count]
    ELSE IF group = "AG_SPEND_ZENY"
    THEN LET cnt == [k \in Slots |->
                        IF k \in DOMAIN ad.targets /\ current_count[k] < ad.targets[k].count
                        THEN current_count[k] + update_count[k]
                        ELSE current_count[k]]
         IN [ok |-> ad.targets # NoTargets /\ ad.condition /\ env.cond[ad.achievement_id],
             guard |-> ad.targets # NoTargets /\ ad.condition,
             changed |-> TRUE, complete |-> AllTargetsMet(cnt, ad.targets), count |-> cnt]
    ELSE IF group \in {"AG_BATTLE", "AG_TAMING"}
    THEN LET hit == {k \in DOMAIN ad.targets :
                        current_count[k] < ad.targets[k].count}
             cnt == [k \in Slots |-> IF k \in hit THEN current_count[k] + 1 ELSE current_count[k]]
         IN [ok |-> ad.targets # NoTargets /\ hit # {}, guard |-> FALSE,
             changed |-> TRUE, complete |-> AllTargetsMet(cnt, ad.targets), count |-> cnt]
    ELSE [ok |-> TRUE, guard |-> FALSE, changed |-> FALSE, complete |-> FALSE, count |-> current_count]

\* The rule that counts a kill also in a slot that has reached its requirement
GroupRule_nocap(ad, group, current_count, update_count, env) ==
    IF group \in CondOnlyGroups
    THEN [ok |-> ad.condition /\ env.cond[ad.achievement_id], guard |-> ad.condition,
          changed |-> TRUE, complete |-> TRUE, count |-> current_count]
    ELSE IF group = "AG_SPEND_ZENY"
    THEN LET cnt == [k \in Slots |->
                        IF k \in DOMAIN ad.targets /\ current_count[k] < ad.targets[k].count
                        THEN current_count[k] + update_count[k]
                        ELSE current_count[k]]
         IN [ok |-> ad.targets # NoTargets /\ ad.condition /\ env.cond[ad.achievement_id],
             guard |-> ad.targets # NoTargets /\ ad.condition,
             changed |-> TRUE, complete |-> AllTargetsMet(cnt, ad.targets), count |-> cnt]
    ELSE IF group \in {"AG_BATTLE", "AG_TAMING"}
    THEN LET hit == {k \in DOMAIN ad.targets : ad.targets[k].mob = update_count[0]}
             cnt == [k \in Slots |-> IF k \in hit THEN current_count[k] + 1 ELSE current_count[k]]
         IN [ok |-> ad.targets # NoTargets /\ hit # {}, guard |-> FALSE,
             changed |-> TRUE, complete |-> AllTargetsMet(cnt, ad.targets), count |-> cnt]
    ELSE [ok |-> TRUE, guard |-> FALSE, changed |-> FALSE, complete |-> FALSE, count |-> current_count]

GroupRule(ad, group, current_count, update_count, env) ==
    IF group \in CondOnlyGroups
    THEN [ok |-> ad.condition /\ env.cond[ad.achievement_id], guard |-> ad.condition,
          changed |-> TRUE, complete |-> TRUE, count |-> current_count]
    ELSE IF group = "AG_SPEND_ZENY"
    THEN LET cnt == [k \in Slots |->
                        IF k \in DOMAIN ad.targets /\ current_count[k] < ad.targets[k].count
                        THEN current_count[k] + update_count[k]
                        ELSE current_count[k]]
         IN [ok |-> ad.targets # NoTargets /\ ad.condition /\ env.cond[ad.achievement_id],
             guard |-> ad.targets # NoTargets /\ ad.condition,
             changed |-> TRUE, complete |-> AllTargetsMet(cnt, ad.targets), count |-> cnt]
    ELSE IF group \in {"AG_BATTLE", "AG_TAMING"}
    THEN LET hit == {k \in DOMAIN ad.targets :
                        ad.targets[k].mob = update_count[0] /\ current_count[k] < ad.targets[k].count}
             cnt == [k \in Slots |-> IF k \in hit THEN current_count[k] + 1 ELSE current_count[k]]
         IN [ok |-> ad.targets # NoTargets /\ hit # {}, guard |-> FALSE,
             changed |-> TRUE, complete |-> AllTargetsMet(cnt, ad.targets), count |-> cnt]
    ELSE [ok |-> TRUE, guard |-> FALSE, changed |-> FALSE, complete |-> FALSE, count |-> current_count]

\* achievement_check_condition runs the guard script attached to the player: the
\* script sees the player's ARGi variables; seen keeps what each run saw, beside
\* the values of the event whose scan called it
achievement_check_condition(s, ad, update_count) ==
    [s EXCEPT !.seen = Append(@, [id |-> ad.achievement_id, regs |-> s.regs, count |-> update_count])]

\* achievement_update_objectives that adds the record of every new achievement it gets to
achievement_update_objectives_always(s0, ad, group, update_count, env) ==
    IF group # ad.group THEN s0
    ELSE
        LET i == ArrFind(s0.achievements, 0, Count(s0), ad.achievement_id)
            isNew == (i = Count(s0))
        IN
        IF isNew /\ ~achievement_check_dependent(s0, ad.achievement_id) THEN s0
        ELSE IF ~isNew /\ s0.achievements[i + 1].completed > 0 THEN s0
        ELSE
            LET current_count == IF isNew THEN ZeroCount ELSE s0.achievements[i + 1].count
                r == GroupRule(ad, group, current_count, update_count, env)
                s == IF r.guard THEN achievement_check_condition(s0, ad, update_count) ELSE s0
                hasCounter == TRUE
                added == IF isNew /\ hasCounter
                         THEN achievement_add(s, ad.achievement_id)
                         ELSE [sd |-> s, ok |-> TRUE, index |-> i]
                changed == IF isNew /\ ~hasCounter THEN FALSE ELSE r.changed
            IN
            IF ~r.ok THEN s
            ELSE IF ~added.ok THEN added.sd
            ELSE IF changed
            THEN LET s1 == [added.sd EXCEPT !.achievements[added.index + 1].count = r.count]
                 IN achievement_update_achievement(s1, ad.achievement_id, r.complete, env).sd
            ELSE added.sd

achievement_update_objectives(s0, ad, group, update_count, env) ==
    IF group # ad.group THEN s0
    ELSE
        LET i == ArrFind(s0.achievements, 0, Count(s0), ad.achievement_id)
            isNew == (i = Count(s0))
        IN
        IF isNew /\ ~achievement_check_dependent(s0, ad.achievement_id) THEN s0
        ELSE IF ~isNew /\ s0.achievements[i + 1].completed > 0 THEN s0
        ELSE
            LET current_count == IF isNew THEN ZeroCount ELSE s0.achievements[i + 1].count
                r == GroupRule(ad, group, current_count, update_count, env)
                s == IF r.guard THEN achievement_check_condition(s0, ad, update_count) ELSE s0
                hasCounter == r.complete \/ \E k \in Slots : r.count[k] # 0
                added == IF isNew /\ hasCounter
                         THEN achievement_add(s, ad.achievement_id)
                         ELSE [sd |-> s, ok |-> TRUE, index |-> i]
                changed == IF isNew /\ ~hasCounter THEN FALSE ELSE r.changed
            IN
            IF ~r.ok THEN s
            ELSE IF ~added.ok THEN added.sd
            ELSE IF changed
            THEN LET s1 == [added.sd EXCEPT !.achievements[added.index + 1].count = r.count]
                 IN achievement_update_achievement(s1, ad.achievement_id, r.complete, env).sd
            ELSE added.sd

\* A scan that ends at the first entry of the group that the event leaves as it was
ObjectivesScan_stop(s, k, group, update_count, env) ==
    IF k > Len(achievement_db) THEN s
    ELSE LET s1 == achievement_update_objectives(s, achievement_db[k], group, update_count, env)
         IN IF achievement_db[k].group = group /\ s1.achievements = s.achievements
            THEN s1
            ELSE ObjectivesScan(s1, k + 1, group, update_count, env)

\* for (auto &ach : achievement_db) achievement_update_objectives(sd, ach.second, group, count);
ObjectivesScan(s, k, group, update_count, env) ==
    IF k > Len(achievement_db) THEN s
    ELSE ObjectivesScan(achievement_update_objectives(s, achievement_db[k], group, update_count, env),
                        k + 1, group, update_count, env)

\* achievement_update_objective that leaves the ARGi variables set when it returns
achievement_update_objective_noclear(s, group, args, env) ==
    LET count == [k \in Slots |-> IF k < Len(args) THEN args[k + 1] ELSE 0]
        s1 == [s EXCEPT !.regs = [k \in DOMAIN @ |-> IF k < Len(args) THEN args[k + 1] ELSE @[k]]]
    IN IF group = "AG_CHAT" THEN s1 ELSE ObjectivesScan(s1, 1, group, count, env)

\* battle_config.feature_achievement is on; args are the va_list values
achievement_update_objective(s, group, args, env) ==
    LET count == [k \in Slots |-> IF k < Len(args) THEN args[k + 1] ELSE 0]
        s1 == [s EXCEPT !.regs = [k \in DOMAIN @ |-> IF k < Len(args) THEN args[k + 1] ELSE @[k]]]
        s2 == IF group = "AG_CHAT" THEN s1 ELSE ObjectivesScan(s1, 1, group, count, env)
    IN [s2 EXCEPT !.regs = [k \in DOMAIN @ |-> IF k < Len(args) THEN 0 ELSE @[k]]]

(***************************************************************************)
(* Reward claim flow.  achievement_check_reward validates the claim and    *)
(* hands it to intif_achievement_reward; the answer of the inter server    *)
(* comes back later through achievement_get_reward.  runs keeps the ids    *)
(* whose reward script the running handler executed.                       *)
(***************************************************************************)
achievement_get_reward(s, id, rewarded) ==
    IF ~DbExists(id) THEN s
    ELSE IF rewarded = 0 THEN Send(s, PktAck(0, id))
    ELSE
        LET i == ArrFind(s.achievements, 0, Count(s), id)
            adb == DbFind(id)
        IN
        IF i = Count(s) THEN s
        ELSE
            LET s1 == [s EXCEPT !.achievements[i + 1].rewarded = rewarded,
                                !.save = TRUE,
                                !.runs = IF adb.rewards.script THEN Append(@, id) ELSE @]
            IN IF adb.rewards.title_id # 0
               THEN Send([s1 EXCEPT !.titles = Append(@, adb.rewards.title_id)], PktList)
               ELSE Send(Send(s1, PktAck(1, id)),
                         PktUpdate(s1.achievements[i + 1], Count(s1) - s1.incompleteCount))

\* intif_achievement_reward( sd, adb ): the request goes out unless the char
\* server is not reachable; its result tells which.
intif_achievement_reward(requests, id, connected) ==
    [requests |-> IF connected THEN Append(requests, id) ELSE requests, ok |-> connected]

\* achievement_check_reward that denies only a record both rewarded and incomplete
achievement_check_reward_and(s, requests, id, connected) ==
    IF ~DbExists(id) THEN [sd |-> Send(s, PktAck(0, id)), requests |-> requests]
    ELSE
        LET i == ArrFind(s.achievements, 0, Count(s), id) IN
        IF i = Count(s) THEN [sd |-> Send(s, PktAck(0, id)), requests |-> requests]
        ELSE IF s.achievements[i + 1].rewarded > 0 /\ s.achievements[i + 1].completed = 0
        THEN [sd |-> Send(s, PktAck(0, id)), requests |-> requests]
        ELSE
            LET r == intif_achievement_reward(requests, id, connected)
            IN [sd |-> IF r.ok THEN s ELSE Send(s, PktAck(0, id)), requests |-> r.requests]

achievement_check_reward(s, requests, id, connected) ==
    IF ~DbExists(id) THEN [sd |-> Send(s, PktAck(0, id)), requests |-> requests]
    ELSE
        LET i == ArrFind(s.achievements, 0, Count(s), id) IN
        IF i = Count(s) THEN [sd |-> Send(s, PktAck(0, id)), requests |-> requests]
        ELSE IF s.achievements[i + 1].rewarded > 0 \/ s.achievements[i + 1].completed = 0
        THEN [sd |-> Send(s, PktAck(0, id)), requests |-> requests]
        ELSE
            LET r == intif_achievement_reward(requests, id, connected)
            IN [sd |-> IF r.ok THEN s ELSE Send(s, PktAck(0, id)), requests |-> r.requests]

(***************************************************************************)
(* achievement_get_titles                                                  *)
(***************************************************************************)
RECURSIVE TitlesScan(_, _)
TitlesScan(arr, k) ==
    IF k > Len(arr) THEN <<>>
    ELSE (IF DbExists(arr[k].achievement_id)
             /\ DbFind(arr[k].achievement_id).rewards.title_id # 0
             /\ arr[k].completed > 0
          THEN <<DbFind(arr[k].achievement_id).rewards.title_id>>
          ELSE <<>>) \o TitlesScan(arr, k + 1)

achievement_get_titles(s) == [s EXCEPT !.titles = TitlesScan(s.achievements, 1)]

(***************************************************************************)
(* Catalogs and level tables the specifications start from.                *)
(***************************************************************************)
\* A kill count, a guarded entry that needs it, an entry that only has a prerequisite
CatalogA ==
    << Def(1, "AG_BATTLE", (0 :> Target(2, 1)), <<>>, FALSE, 1, TRUE, 0),
       Def(2, "AG_JOB_CHANGE", NoTargets, <<1>>, TRUE, 2, FALSE, 7),
       Def(3, "AG_ADVENTURE", NoTargets, <<2>>, FALSE, 1, FALSE, 0) >>

\* An accumulator with a guard, a two-slot taming entry, the goal entry
CatalogB ==
    << Def(4, "AG_SPEND_ZENY", (0 :> Target(2, 0)), <<>>, TRUE, 1, TRUE, 0),
       Def(5, "AG_TAMING", (0 :> Target(1, 1)) @@ (3 :> Target(1, 0)), <<>>, FALSE, 1, FALSE, 0),
       Def(6, "AG_GOAL_ACHIEVE", NoTargets, <<>>, TRUE, 2, FALSE, 0) >>

\* A reward script without a title, and a title
CatalogR ==
    << Def(1, "AG_BATTLE", (0 :> Target(1, 1)), <<>>, FALSE, 1, TRUE, 0),
       Def(2, "AG_JOB_CHANGE", NoTargets, <<1>>, TRUE, 2, TRUE, 7) >>

\* An accumulator with a reward script and a title
CatalogZ ==
    << Def(4, "AG_SPEND_ZENY", (0 :> Target(2, 0)), <<>>, TRUE, 1, TRUE, 8) >>

\* Two entries without requirements, with the scores given
LevelCatalog(s1, s2) ==
    << Def(1, "AG_ADVENTURE", NoTargets, <<>>, FALSE, s1, FALSE, 0),
       Def(2, "AG_GOAL_STATUS", NoTargets, <<>>, TRUE, s2, FALSE, 0) >>

MainLevels == <<1, 3>>

\* The dense tables of up to MaxLevels levels with thresholds 1 .. MaxPoints
LevelTables == UNION {[1 .. n -> 1 .. MaxPoints] : n \in 1 .. MaxLevels}

Permute(seq, p) == [k \in 1 .. Len(seq) |-> seq[p[k]]]

\* The orders in which an unordered container may hand out its entries
Orders(seq) == {Permute(seq, p) : p \in Permutations(1 .. Len(seq))}

Reverse(seq) == [k \in 1 .. Len(seq) |-> seq[Len(seq) + 1 - k]]

EmptySession ==
    [achievements |-> <<>>, incompleteCount |-> 0, total_score |-> 0, level |-> 0,
     save |-> FALSE, titles |-> <<>>, info |-> <<0, 0>>,
     regs |-> [k \in Slots |-> 0],
     fd |-> <<>>, hist |-> <<>>, runs |-> <<>>, seen |-> <<>>]

\* A handler starts with nothing sent and nothing logged
Begin(s) == [s EXCEPT !.fd = <<>>, !.hist = <<>>, !.runs = <<>>, !.seen = <<>>]

Called(op, id, arg) == [op |-> op, id |-> id, arg |-> arg]

InitWith(db, levels) ==
    /\ sd = EmptySession
    /\ achievement_db = db
    /\ achievement_level_db = levels
    /\ inter = <<>>
    /\ last = Called("init", 0, <<>>)

Init ==
    \E db \in Orders(CatalogA) \cup {CatalogB, Reverse(CatalogB)} : InitWith(db, MainLevels)

InitReward ==
    \E db \in {CatalogR, CatalogZ} : InitWith(db, MainLevels)

\* Any table with any two scores, and the table <<100, 300>> with a score of 250
InitLevel ==
    \/ \E T \in LevelTables, s1, s2 \in 0 .. MaxScore : InitWith(LevelCatalog(s1, s2), T)
    \/ InitWith(LevelCatalog(250, 100), <<100, 300>>)

AnyIds == DbIds \cup {0}
Times == 1 .. MaxTime
NoCond == [id \in DbIds |-> FALSE]
Env(t, cond) == [t |-> t, cond |-> cond]

\* The guards an event of this group may evaluate
GuardIds(group) ==
    {achievement_db[k].achievement_id :
        k \in {j \in 1 .. Len(achievement_db) :
                 achievement_db[j].group = group /\ achievement_db[j].condition}}

Conds(group) ==
    {[id \in DbIds |-> id \in yes] : yes \in SUBSET GuardIds(group)}

EventGroups ==
    {achievement_db[k].group : k \in 1 .. Len(achievement_db)} \cup {"AG_CHAT", "AG_GOAL_ACHIEVE"}

\* An event carries no argument or one: a monster id or an amount
ArgLists == {<<>>} \cup {<<v>> : v \in 0 .. MaxArg}

Add(id) ==
    /\ sd' = achievement_add(Begin(sd), id).sd
    /\ last' = Called("add", id, <<>>)
    /\ UNCHANGED <<achievement_db, achievement_level_db, inter>>

Remove(id) ==
    /\ sd' = achievement_remove(Begin(sd), id).sd
    /\ last' = Called("remove", id, <<>>)
    /\ UNCHANGED <<achievement_db, achievement_level_db, inter>>

Complete(id, complete, t) ==
    /\ sd' = achievement_update_achievement(Begin(sd), id, complete, Env(t, NoCond)).sd
    /\ last' = Called("update_achievement", id, <<complete>>)
    /\ UNCHANGED <<achievement_db, achievement_level_db, inter>>

Event(group, args, cond, t) ==
    /\ sd' = achievement_update_objective(Begin(sd), group, args, Env(t, cond))
    /\ last' = Called("update_objective", 0, <<group>>)
    /\ UNCHANGED <<achievement_db, achievement_level_db, inter>>

Level(flag, t) ==
    /\ sd' = achievement_level(Begin(sd), flag, Env(t, NoCond))
    /\ last' = Called("level", 0, <<>>)
    /\ UNCHANGED <<achievement_db, achievement_level_db, inter>>

CheckReward(id, connected) ==
    /\ Len(inter) < MaxPending
    /\ LET r == achievement_check_reward(Begin(sd), inter, id, connected)
       IN /\ sd' = r.sd
          /\ inter' = r.requests
    /\ last' = Called("check_reward", id, <<>>)
    /\ UNCHANGED <<achievement_db, achievement_level_db>>

\* The inter server answers the oldest request with a timestamp, or 0
GetReward(rewarded) ==
    /\ inter # <<>>
    /\ Len(sd.titles) < MaxTitles
    /\ sd' = achievement_get_reward(Begin(sd), Head(inter), rewarded)
    /\ inter' = Tail(inter)
    /\ last' = Called("get_reward", Head(inter), <<rewarded>>)
    /\ UNCHANGED <<achievement_db, achievement_level_db>>

GetTitles ==
    /\ sd' = achievement_get_titles(Begin(sd))
    /\ last' = Called("get_titles", 0, <<>>)
    /\ UNCHANGED <<achievement_db, achievement_level_db, inter>>

Next ==
    \/ \E id \in AnyIds : Add(id)
    \/ \E id \in AnyIds : Remove(id)
    \/ \E id \in AnyIds, complete \in BOOLEAN, t \in Times : Complete(id, complete, t)
    \/ \E group \in EventGroups, args \in ArgLists, t \in Times :
           \E cond \in Conds(group) : Event(group, args, cond, t)
    \/ \E flag \in BOOLEAN, t \in Times : Level(flag, t)

NextReward ==
    \/ Next
    \/ \E id \in AnyIds, connected \in BOOLEAN : CheckReward(id, connected)
    \/ \E rewarded \in 0 .. MaxTime : GetReward(rewarded)
    \/ GetTitles

NextLevel ==
    \/ \E id \in DbIds : Add(id)
    \/ \E id \in DbIds : Remove(id)
    \/ \E id \in DbIds, t \in Times : Complete(id, TRUE, t)
    \/ \E flag \in BOOLEAN, t \in Times : Level(flag, t)

\* The progress store and the objective update engine
Spec == Init /\ [][Next]_vars

\* The same handlers with the reward claim flow, on the reward catalogs
SpecReward == InitReward /\ [][NextReward]_vars

(***************************************************************************)
(* Properties                                                              *)
(***************************************************************************)
Records == sd.achievements
NRecords == Len(sd.achievements)
DepsOf(id) == {DbFind(id).dependent_ids[k] : k \in 1 .. Len(DbFind(id).dependent_ids)}

\* C1: after any sequence of adds, removes, events and completions the records
\* at indices [0, incompleteCount) have completion timestamp 0, those at
\* [incompleteCount, count) a nonzero one, 0 <= incompleteCount <= count, and
\* no achievement id occurs in two records.
PartitionInvariant ==
    /\ 0 <= sd.incompleteCount
    /\ sd.incompleteCount <= NRecords
    /\ \A k \in 1 .. NRecords :
          IF k <= sd.incompleteCount THEN Records[k].completed = 0 ELSE Records[k].completed # 0
    /\ \A j, k \in 1 .. NRecords : j # k => Records[j].achievement_id # Records[k].achievement_id

\* An event changed the array and left an incomplete record before two completed ones
PartitionWitness ==
    /\ last.op = "update_objective"
    /\ sd.fd # <<>>
    /\ sd.incompleteCount >= 1
    /\ NRecords >= sd.incompleteCount + 2

RECURSIVE SumOver(_, _)
SumOver(S, f) == IF S = {} THEN 0 ELSE LET x == CHOOSE x \in S : TRUE IN f[x] + SumOver(S \ {x}, f)

\* C2: the cached total score equals the sum of score over the records with a
\* nonzero completion timestamp, in every reachable state.
ScoreConsistency ==
    sd.total_score =
        SumOver({k \in 1 .. NRecords : Records[k].completed # 0}, [k \in 1 .. NRecords |-> Records[k].score])

\* C3: an objective-update event leaves every record that was completed before
\* it in the array with the same slot counts, completion timestamp and
\* reward-claimed timestamp.
CompletedImmutable ==
    [][last'.op = "update_objective" =>
         \A k \in 1 .. NRecords :
             Records[k].completed # 0 =>
                 \E j \in 1 .. Len(sd'.achievements) : sd'.achievements[j] = Records[k]]_vars

\* An event that changed the array while a completed, rewarded record was in it
CompletedImmutableWitness ==
    /\ last.op = "update_objective"
    /\ sd.hist # <<>>
    /\ \E k \in 1 .. NRecords :
          /\ Records[k].rewarded # 0
          /\ Records[k].achievement_id \in sd.hist[1].done

\* C4: every record an objective-update event creates for an achievement with
\* prerequisites is created while each prerequisite has a completed record.
DependencyGating ==
    last.op = "update_objective" =>
        \A k \in 1 .. Len(sd.hist) : DepsOf(sd.hist[k].id) \subseteq sd.hist[k].done

\* An event created the record of an achievement that has a prerequisite
DependencyGatingWitness ==
    /\ last.op = "update_objective"
    /\ \E k \in 1 .. Len(sd.hist) : DepsOf(sd.hist[k].id) # {}

\* The level calculator over every table and score
SpecLevel == InitLevel /\ [][NextLevel]_vars

Range(seq) == {seq[k] : k \in 1 .. Len(seq)}
RecordOf(s, id) == s.achievements[ArrFind(s.achievements, 0, Count(s), id) + 1]
Has(s, id) == ArrFind(s.achievements, 0, Count(s), id) < Count(s)

\* What a handler may change of the player besides what it sends and logs
DataOf(s) == [s EXCEPT !.fd = <<>>, !.hist = <<>>, !.runs = <<>>, !.seen = <<>>]

\* C5: the reward script of a record whose reward-claimed timestamp is nonzero
\* is never executed again and the timestamp is not written again; a claim on
\* such a record is denied.
RewardSingleGrant ==
    [][\A k \in 1 .. NRecords :
          Records[k].rewarded # 0 =>
              /\ Records[k].achievement_id \notin Range(sd'.runs)
              /\ (last'.op = "get_reward" /\ last'.id = Records[k].achievement_id
                    => DataOf(sd') = DataOf(sd))
              /\ (last'.op = "check_reward" /\ last'.id = Records[k].achievement_id
                    => sd'.fd = <<PktAck(0, last'.id)>> /\ inter' = inter)]_vars

\* C6: a claim for an achievement whose approval request is still pending
\* issues no second request and changes no state.
PendingClaimRejected ==
    [][(last'.op = "check_reward" /\ last'.id \in Range(inter)) =>
          /\ inter' = inter
          /\ DataOf(sd') = DataOf(sd)]_vars

ClaimDenied(s, id) ==
    \/ ~DbExists(id)
    \/ ~Has(s, id)
    \/ RecordOf(s, id).completed = 0
    \/ RecordOf(s, id).rewarded # 0

\* C7: achievement_check_reward for an unknown id, a missing record, an
\* incomplete record or an already rewarded record sends one denied
\* acknowledgement, issues no request and leaves records, titles and the dirty
\* flag as they were.
ClaimDenial ==
    [][(last'.op = "check_reward" /\ ClaimDenied(sd, last'.id)) =>
          /\ sd'.fd = <<PktAck(0, last'.id)>>
          /\ inter' = inter
          /\ DataOf(sd') = DataOf(sd)]_vars

\* A claim on an incomplete record was denied
ClaimDenialWitness ==
    /\ last.op = "check_reward"
    /\ Has(sd, last.id)
    /\ RecordOf(sd, last.id).completed = 0
    /\ sd.fd = <<PktAck(0, last.id)>>

(***************************************************************************)
(* The level calculator against its reference definition.                  *)
(***************************************************************************)
LevelCount == Len(achievement_level_db)
Threshold(L) == achievement_level_db[L + 1]

\* The first level whose threshold the score does not exceed, or the level count
RefLevel(S) ==
    LET fit == {L \in 0 .. (LevelCount - 1) : S <= Threshold(L)}
    IN IF fit = {} THEN LevelCount ELSE CHOOSE L \in fit : \A M \in fit : L <= M

RefInfo(S) ==
    LET L == RefLevel(S)
    IN IF L = LevelCount THEN <<S - Threshold(LevelCount - 1), 0>>
       ELSE IF L = 0 THEN <<S, Threshold(0)>>
       ELSE <<S - Threshold(L - 1), Threshold(L) - Threshold(L - 1)>>

MaxOf(S) == CHOOSE x \in S : \A y \in S : y <= x

\* The scores from 0 to one above the highest threshold and the player's total
ScoreRange == 0 .. (MaxOf(Range(achievement_level_db) \cup {sd.total_score}) + 1)

\* C8: the level is non-decreasing in the total score: the level computed for
\* the player is at least the level of every smaller score and at most the
\* level of every larger one.
MonotonicLeveling ==
    \A a \in ScoreRange :
        LET la == LevelWalk(achievement_level_db, a, 0).level
        IN /\ (a <= sd.total_score => la <= sd.level)
           /\ (a >= sd.total_score => la >= sd.level)
           /\ \A b \in ScoreRange : a <= b => la <= LevelWalk(achievement_level_db, b, 0).level

\* The level was recomputed for a score above the last threshold of a two-level table
MonotonicLevelingWitness ==
    /\ last.op = "level"
    /\ LevelCount = 2
    /\ sd.total_score > Threshold(1)
    /\ sd.level = 2

\* C9, as claimed: progressIntoLevel < pointsToNext strictly, except at the max
\* level, where both are zero.
ProgressBelowNext ==
    last.op = "level" =>
        IF sd.level = LevelCount
        THEN sd.info = <<0, 0>>
        ELSE sd.info[1] < sd.info[2]

\* C9, amended: below the max level progressIntoLevel <= pointsToNext, with
\* equality exactly when the total score is the threshold of the level; at the
\* max level pointsToNext is 0 and progressIntoLevel is the positive excess of
\* the total score over the last threshold.
ProgressWithinLevel ==
    last.op = "level" =>
        IF sd.level = LevelCount
        THEN sd.info[2] = 0 /\ sd.info[1] = sd.total_score - Threshold(LevelCount - 1) /\ sd.info[1] > 0
        ELSE /\ sd.info[1] <= sd.info[2]
             /\ (sd.info[1] = sd.info[2] <=> sd.total_score = Threshold(sd.level))

\* The score equals the threshold of a level above level 0
ProgressWithinLevelWitness ==
    /\ last.op = "level"
    /\ sd.level >= 1
    /\ sd.level < LevelCount
    /\ sd.total_score = Threshold(sd.level)
    /\ sd.info[1] = sd.info[2]

\* C10: the level is the first L with S <= T[L], with (S, T[0]) at level 0 and
\* (S - T[L-1], T[L] - T[L-1]) above it; beyond the last threshold the level is
\* the level count and the pair is (S - T[n-1], 0).
LevelMatchesReference ==
    /\ sd.level = RefLevel(sd.total_score)
    /\ last.op = "level" => sd.info = RefInfo(sd.total_score)

\* T = [100, 300] and S = 250 give level 1, progress 150, 200 to the next level
LevelMatchesReferenceWitness ==
    /\ last.op = "level"
    /\ achievement_level_db = <<100, 300>>
    /\ sd.total_score = 250
    /\ sd.level = 1
    /\ sd.info = <<150, 200>>

(***************************************************************************)
(* The progress store with the periodic save that drains the dirty flag.   *)
(***************************************************************************)
\* The save of the player's achievements: the dirty flag is cleared
Checkpoint ==
    /\ sd.save
    /\ sd' = [Begin(sd) EXCEPT !.save = FALSE]
    /\ last' = Called("save", 0, <<>>)
    /\ UNCHANGED <<achievement_db, achievement_level_db, inter>>

\* A chain of entries that only have a prerequisite
CatalogU ==
    << Def(1, "AG_BATTLE", (0 :> Target(1, 1)), <<>>, FALSE, 1, FALSE, 0),
       Def(3, "AG_ADVENTURE", NoTargets, <<1>>, FALSE, 1, FALSE, 0),
       Def(5, "AG_TAMING", (0 :> Target(1, 1)), <<3>>, FALSE, 1, FALSE, 0) >>

InitStore ==
    \E db \in {CatalogB, CatalogU, Reverse(CatalogU)} : InitWith(db, MainLevels)

NextStore ==
    \/ Next
    \/ Checkpoint

SpecStore == InitStore /\ [][NextStore]_vars

\* C11: a successful achievement_add (id in the catalog, no record yet) puts a
\* record with ten zero counts, zero completion and reward timestamps and the
\* definition's score at index (old incompleteCount), raises count and
\* incompleteCount by one, keeps the other records and their order, sets the
\* dirty flag and sends one update carrying the new record and the number of
\* completed records.
AddContract ==
    [][(last'.op = "add" /\ DbExists(last'.id) /\ ~Has(sd, last'.id)) =>
          LET id == last'.id
              index == sd.incompleteCount
              rec == [achievement_id |-> id, count |-> [k \in 0 .. 9 |-> 0],
                      completed |-> 0, rewarded |-> 0, score |-> DbFind(id).score]
          IN /\ achievement_add(Begin(sd), id).ok
             /\ Len(sd'.achievements) = NRecords + 1
             /\ sd'.incompleteCount = sd.incompleteCount + 1
             /\ sd'.achievements[index + 1] = rec
             /\ \A k \in 1 .. NRecords :
                   sd'.achievements[IF k <= index THEN k ELSE k + 1] = Records[k]
             /\ sd'.save
             /\ sd'.fd = <<[type |-> "update", id |-> id, rec |-> rec,
                            n |-> NRecords - sd.incompleteCount]>>]_vars

\* An add put its record between an incomplete and a completed one
AddContractWitness ==
    /\ last.op = "add"
    /\ Len(sd.fd) = 1
    /\ sd.incompleteCount >= 2
    /\ NRecords > sd.incompleteCount
    /\ Records[sd.incompleteCount].achievement_id = last.id
    /\ Records[sd.incompleteCount].score > 0

\* C12: achievement_add with an id that is not in the catalog or that the player
\* already holds, and achievement_remove with an id that is not in the catalog
\* or that the player does not hold, return failure, send nothing and leave the
\* records, count, incompleteCount, total score, level and dirty flag as they were.
FailedAddRemove ==
    [][/\ (last'.op = "add" /\ (~DbExists(last'.id) \/ Has(sd, last'.id))) =>
              /\ ~achievement_add(Begin(sd), last'.id).ok
              /\ sd'.fd = <<>>
              /\ DataOf(sd') = DataOf(sd)
       /\ (last'.op = "remove" /\ (~DbExists(last'.id) \/ ~Has(sd, last'.id))) =>
              /\ ~achievement_remove(Begin(sd), last'.id).ok
              /\ sd'.fd = <<>>
              /\ DataOf(sd') = DataOf(sd)]_vars

\* An add was refused for a record the player holds, the dirty flag being clear
FailedAddRemoveWitness ==
    /\ last.op = "add"
    /\ Has(sd, last.id)
    /\ sd.fd = <<>>
    /\ ~sd.save

\* C13: achievement_update_achievement with complete = true on an incomplete
\* record X succeeds; afterwards X has a nonzero completion timestamp, every
\* slot of X's definition is at its required count, X is in the completed
\* partition and every other record that existed has its contents unchanged.
\* For an id that is unknown, not held or already completed it returns failure
\* and changes nothing.
MarkCompleted ==
    [][(last'.op = "update_achievement" /\ last'.arg = <<TRUE>>) =>
          LET id == last'.id
              ok == \A t \in Times :
                        achievement_update_achievement(Begin(sd), id, TRUE, Env(t, NoCond)).ok
          IN IF DbExists(id) /\ Has(sd, id) /\ RecordOf(sd, id).completed = 0
             THEN /\ ok
                  /\ Has(sd', id)
                  /\ RecordOf(sd', id).completed # 0
                  /\ \A k \in DOMAIN DbFind(id).targets :
                        RecordOf(sd', id).count[k] = DbFind(id).targets[k].count
                  /\ ArrFind(sd'.achievements, 0, Count(sd'), id) >= sd'.incompleteCount
                  /\ \A k \in 1 .. NRecords :
                        Records[k].achievement_id # id =>
                            \E j \in 1 .. Count(sd') : sd'.achievements[j] = Records[k]
             ELSE /\ ~ok
                  /\ sd'.fd = <<>>
                  /\ DataOf(sd') = DataOf(sd)]_vars

\* A record with a target was completed while another record stayed incomplete
MarkCompletedWitness ==
    /\ last.op = "update_achievement"
    /\ last.arg = <<TRUE>>
    /\ sd.fd # <<>>
    /\ Has(sd, last.id)
    /\ RecordOf(sd, last.id).completed # 0
    /\ DbFind(last.id).targets # NoTargets
    /\ sd.incompleteCount >= 1

\* The entries that only have prerequisites
DependentOnly ==
    {ad \in Range(achievement_db) :
        /\ ad.group \in {"AG_BATTLE", "AG_TAMING", "AG_ADVENTURE"}
        /\ ad.dependent_ids # <<>>
        /\ ~ad.condition}

\* Those of them the player has no record for while every prerequisite is completed
Unlockable(s) ==
    {ad \in DependentOnly :
        /\ ~Has(s, ad.achievement_id)
        /\ \A k \in 1 .. Len(ad.dependent_ids) :
              /\ Has(s, ad.dependent_ids[k])
              /\ RecordOf(s, ad.dependent_ids[k]).completed # 0}

\* The handler that ran completed a record
CompletionSent(s) ==
    \E j \in 1 .. Len(s.fd) : s.fd[j].type = "update" /\ s.fd[j].rec.completed # 0

\* C16: when a handler that completed a record returns, no battle, taming or
\* adventure entry with prerequisites and without a guard is left without a
\* record while all its prerequisites are completed; after
\* achievement_update_achievement(complete = true) every such entry that had no
\* record, also one whose prerequisites the scan itself completed, has been
\* added and completed.
UnlockClosure ==
    [][(last'.op \in {"update_achievement", "update_objective"} /\ CompletionSent(sd')) =>
          /\ Unlockable(sd') = {}
          /\ last'.op = "update_achievement" =>
                \A ad \in DependentOnly :
                    (~Has(sd, ad.achievement_id) /\ achievement_check_dependent(sd', ad.achievement_id)) =>
                        /\ ad.achievement_id \in {sd'.hist[k].id : k \in 1 .. Len(sd'.hist)}
                        /\ RecordOf(sd', ad.achievement_id).completed # 0]_vars

\* A completion unlocked an entry and, through it, an entry the scan had passed already
UnlockClosureWitness ==
    /\ last.op = "update_achievement"
    /\ CompletionSent(sd)
    /\ achievement_db[1] \in DependentOnly
    /\ \E k \in 1 .. Len(sd.hist) : sd.hist[k].id = achievement_db[1].achievement_id
    /\ \E k \in 1 .. Len(sd.hist) : sd.hist[k].id \in DepsOf(achievement_db[1].achievement_id)
    /\ RecordOf(sd, achievement_db[1].achievement_id).completed # 0

(***************************************************************************)
(* The objective update engine with the event kept: last holds the group,  *)
(* the arguments and what each guard evaluates to during the event.        *)
(***************************************************************************)
\* Two single-slot kill counts: 2 of monster 1, and 1 of monster 1
CatalogK ==
    << Def(1, "AG_BATTLE", (0 :> Target(2, 1)), <<>>, FALSE, 1, FALSE, 0),
       Def(5, "AG_TAMING", (0 :> Target(1, 1)), <<>>, FALSE, 1, FALSE, 0) >>

\* A guarded entry behind a prerequisite, and an entry of a guarded group without a guard
CatalogC ==
    << Def(1, "AG_BATTLE", (0 :> Target(1, 1)), <<>>, FALSE, 1, FALSE, 0),
       Def(2, "AG_JOB_CHANGE", NoTargets, <<1>>, TRUE, 2, FALSE, 0),
       Def(3, "AG_MARRY", NoTargets, <<>>, FALSE, 1, FALSE, 0) >>

\* A kill whose score changes the level, and the goal entry
CatalogG ==
    << Def(1, "AG_BATTLE", (0 :> Target(1, 1)), <<>>, FALSE, 2, FALSE, 0),
       Def(6, "AG_GOAL_ACHIEVE", NoTargets, <<>>, TRUE, 1, FALSE, 0) >>

InitEvent ==
    \E db \in {CatalogK, CatalogC, CatalogG, CatalogZ, CatalogU, Reverse(CatalogU)} :
        InitWith(db, MainLevels)

\* No argument, one value, or two values
EventArgs == {<<>>, <<1, 1>>} \cup {<<v>> : v \in 0 .. MaxValue}

\* What the guards of the catalog evaluate to during one event
AllConds ==
    {[id \in DbIds |-> id \in yes] :
        yes \in SUBSET {achievement_db[k].achievement_id :
                          k \in {j \in 1 .. Len(achievement_db) : achievement_db[j].condition}}}

\* achievement_update_objective
Report(group, args, cond, t) ==
    /\ sd' = achievement_update_objective(Begin(sd), group, args, Env(t, cond))
    /\ last' = Called("update_objective", 0, <<group, args, cond>>)
    /\ UNCHANGED <<achievement_db, achievement_level_db, inter>>

NextEvent ==
    \/ \E id \in AnyIds : Add(id)
    \/ \E id \in AnyIds, t \in Times : Complete(id, TRUE, t)
    \/ \E group \in EventGroups, args \in EventArgs, t \in Times :
           \E cond \in AllConds : Report(group, args, cond, t)
    \/ Checkpoint

SpecEvent == InitEvent /\ [][NextEvent]_vars

\* The event the last handler was called with
EvGroup == last.arg[1]
EvArgs == last.arg[2]
EvCond == last.arg[3]
EvCount == [k \in Slots |-> IF k < Len(EvArgs) THEN EvArgs[k + 1] ELSE 0]

\* The entries that count kills of one monster in one slot and need no other entry
KillEntries ==
    {ad \in Range(achievement_db) :
        /\ ad.group \in {"AG_BATTLE", "AG_TAMING"}
        /\ ad.dependent_ids = <<>>
        /\ Cardinality(DOMAIN ad.targets) = 1
        /\ \A k \in DOMAIN ad.targets : ad.targets[k].count >= 1}

\* The count a record holds in a slot, 0 without a record
Progress(s, id, k) == IF Has(s, id) THEN RecordOf(s, id).count[k] ELSE 0

Incomplete(s, id) == Has(s, id) => RecordOf(s, id).completed = 0

InCompletedBlock(s, id) == ArrFind(s.achievements, 0, Count(s), id) >= s.incompleteCount

\* The entries of the groups that complete on their guard alone
GuardEntries == {ad \in Range(achievement_db) : ad.group \in CondOnlyGroups}

\* The ids of the records the running handler created
Created(s) == {s.hist[k].id : k \in 1 .. Len(s.hist)}

\* C14: for a battle or taming entry without prerequisites whose single slot
\* asks for N >= 1 kills of monster M, an event of its group that reports M
\* raises the slot count of a record not yet completed by one, creating the
\* record if there is none: below N the record stays incomplete, at N it is
\* completed with slot count N, a nonzero completion timestamp and a place in
\* the completed partition; an event that reports another monster leaves the
\* record, or its absence, as it was.
MonsterProgress ==
    [][last'.op = "update_objective" =>
          \A ad \in KillEntries : \A k \in DOMAIN ad.targets :
              LET id == ad.achievement_id
                  N == ad.targets[k].count
                  reported == IF Len(last'.arg[2]) > 0 THEN last'.arg[2][1] ELSE 0
                  c == Progress(sd, id, k) + 1
              IN IF last'.arg[1] = ad.group /\ reported = ad.targets[k].mob /\ Incomplete(sd, id)
                 THEN /\ Has(sd', id)
                      /\ RecordOf(sd', id).count[k] = c
                      /\ IF c < N
                         THEN RecordOf(sd', id).completed = 0 /\ ~InCompletedBlock(sd', id)
                         ELSE /\ c = N
                              /\ RecordOf(sd', id).completed # 0
                              /\ InCompletedBlock(sd', id)
                 ELSE /\ Has(sd', id) = Has(sd, id)
                      /\ Has(sd, id) => RecordOf(sd', id) = RecordOf(sd, id)]_vars

\* The kill that brought the count of an existing record to 2 of 2 completed it
MonsterProgressWitness ==
    /\ last.op = "update_objective"
    /\ sd.hist = <<>>
    /\ \E ad \in KillEntries :
          /\ EvGroup = ad.group
          /\ EvCount[0] = ad.targets[0].mob
          /\ ad.targets[0].count = 2
          /\ Has(sd, ad.achievement_id)
          /\ RecordOf(sd, ad.achievement_id).count[0] = 2
          /\ RecordOf(sd, ad.achievement_id).completed # 0
          /\ ad.achievement_id \in {sd.fd[j].id : j \in 1 .. Len(sd.fd)}

\* C15: for an entry A of a condition-only group that has a guard, whose record
\* the player does not hold and whose prerequisites are all completed, one
\* event of A's group for which the guard evaluates to nonzero creates A's
\* record and completes it: when the event returns A is in the completed
\* partition with a nonzero completion timestamp.  If the guard evaluates to
\* zero, or A has no guard, no record for A is created.
ConditionOnlyCompletion ==
    [][last'.op = "update_objective" =>
          \A ad \in GuardEntries :
              LET id == ad.achievement_id
                  passes == ad.condition /\ last'.arg[3][id]
              IN ~Has(sd, id) =>
                    /\ (last'.arg[1] = ad.group /\ passes /\ achievement_check_dependent(sd, id)) =>
                          /\ id \in Created(sd')
                          /\ Has(sd', id)
                          /\ RecordOf(sd', id).completed # 0
                          /\ InCompletedBlock(sd', id)
                    /\ ~passes => ~Has(sd', id)]_vars

\* An event created and completed a guarded entry whose prerequisite was completed
ConditionOnlyCompletionWitness ==
    /\ last.op = "update_objective"
    /\ \E ad \in GuardEntries :
          /\ EvGroup = ad.group
          /\ ad.condition
          /\ EvCond[ad.achievement_id]
          /\ ad.dependent_ids # <<>>
          /\ ad.achievement_id \in Created(sd)
          /\ RecordOf(sd, ad.achievement_id).completed # 0

\* C17: when a recompute with the grant flag changes the player's level, the
\* AG_GOAL_ACHIEVE event it raises grants the goal entry: an entry of that group
\* whose guard is satisfied and whose prerequisites are completed is created
\* and completed by the handler in which the level changed.
LevelUpGrantsGoal ==
    [][(last'.op = "update_objective" /\ sd'.level # sd.level) =>
          \A ad \in Range(achievement_db) :
              (/\ ad.group = "AG_GOAL_ACHIEVE"
               /\ ad.condition
               /\ last'.arg[3][ad.achievement_id]
               /\ achievement_check_dependent(sd', ad.achievement_id)) =>
                  /\ Has(sd', ad.achievement_id)
                  /\ RecordOf(sd', ad.achievement_id).completed # 0]_vars

\* The accumulator entries an event can reach: targets and a guard
ZenyEntries ==
    {ad \in Range(achievement_db) :
        ad.group = "AG_SPEND_ZENY" /\ ad.targets # NoTargets /\ ad.condition}

\* The values an event with these arguments carries for the ten slots
ValuesOf(args) == [k \in Slots |-> IF k < Len(args) THEN args[k + 1] ELSE 0]

\* The running counts of the accumulator rule: the event's value added to every
\* slot of the definition that is below its required count
Accumulated(s, ad, args) ==
    [k \in Slots |->
        IF k \in DOMAIN ad.targets /\ Progress(s, ad.achievement_id, k) < ad.targets[k].count
        THEN Progress(s, ad.achievement_id, k) + ValuesOf(args)[k]
        ELSE Progress(s, ad.achievement_id, k)]

Reached(ad, count) == \A k \in DOMAIN ad.targets : count[k] >= ad.targets[k].count

\* A zeny event meets a zeny entry it can act on: not completed, and held or free to be created
ZenyCase(ad) ==
    /\ last'.op = "update_objective"
    /\ last'.arg[1] = "AG_SPEND_ZENY"
    /\ Incomplete(sd, ad.achievement_id)
    /\ Has(sd, ad.achievement_id) \/ achievement_check_dependent(sd, ad.achievement_id)

\* The guard of a zeny entry fails: the record's counts stay, no record is
\* created, and if no guard of the group passes the event neither sets the
\* dirty flag nor sends anything
GuardFailureDiscards(ad) ==
    ~last'.arg[3][ad.achievement_id] =>
        /\ Has(sd', ad.achievement_id) = Has(sd, ad.achievement_id)
        /\ Has(sd, ad.achievement_id) => RecordOf(sd', ad.achievement_id) = RecordOf(sd, ad.achievement_id)
        /\ (\A other \in ZenyEntries : ~last'.arg[3][other.achievement_id]) =>
              sd'.fd = <<>> /\ DataOf(sd') = DataOf(sd)

\* C18, as claimed: when the guard fails the event changes nothing; when it
\* passes, each slot that was below its required count is increased by the
\* event's value for that slot, and the record is completed iff every slot of
\* the definition is then at or above its required count.
AccumulatorAddsValue ==
    [][\A ad \in ZenyEntries :
          ZenyCase(ad) =>
              LET id == ad.achievement_id
                  sum == Accumulated(sd, ad, last'.arg[2])
              IN /\ GuardFailureDiscards(ad)
                 /\ last'.arg[3][id] =>
                       /\ \A k \in Slots : Progress(sd', id, k) = sum[k]
                       /\ (Has(sd', id) /\ RecordOf(sd', id).completed # 0) <=> Reached(ad, sum)]_vars

\* C18, amended: when the guard fails the event changes nothing; when it
\* passes, the event's value is added to each slot below its required count,
\* the record is completed iff every slot of the definition then reaches its
\* required count, a record that is not completed holds the sums, and a
\* completed record holds the required counts, not the sums.
AccumulatorGuard ==
    [][\A ad \in ZenyEntries :
          ZenyCase(ad) =>
              LET id == ad.achievement_id
                  sum == Accumulated(sd, ad, last'.arg[2])
              IN /\ GuardFailureDiscards(ad)
                 /\ last'.arg[3][id] =>
                       /\ (Has(sd', id) /\ RecordOf(sd', id).completed # 0) <=> Reached(ad, sum)
                       /\ ~Reached(ad, sum) => \A k \in Slots : Progress(sd', id, k) = sum[k]
                       /\ Reached(ad, sum) =>
                             \A k \in DOMAIN ad.targets :
                                 RecordOf(sd', id).count[k] = ad.targets[k].count]_vars

\* A spend of 1 with a passing guard created a record that holds 1 of 2
AccumulatorGuardWitness ==
    /\ last.op = "update_objective"
    /\ EvGroup = "AG_SPEND_ZENY"
    /\ \E ad \in ZenyEntries :
          /\ EvCond[ad.achievement_id]
          /\ EvCount[0] = 1
          /\ ad.achievement_id \in Created(sd)
          /\ RecordOf(sd, ad.achievement_id).count[0] = 1
          /\ ad.targets[0].count = 2
          /\ RecordOf(sd, ad.achievement_id).completed = 0

\* The event computes no progress for an entry without a record: no slot asks
\* for the reported monster, or the values to add are all 0 and a slot is open
ZeroProgress(ad, args) ==
    IF ad.group = "AG_SPEND_ZENY"
    THEN /\ \A k \in DOMAIN ad.targets : ad.targets[k].count > 0 => ValuesOf(args)[k] = 0
         /\ \E k \in DOMAIN ad.targets : ad.targets[k].count > 0
    ELSE \A k \in DOMAIN ad.targets :
             ~(ad.targets[k].mob = ValuesOf(args)[0] /\ ad.targets[k].count > 0)

\* C19: every record an objective-update event creates is, when the event
\* returns, completed or has a nonzero slot count; and a kill or spend event
\* that computes all-zero progress without completion for every entry of its
\* group, none of which the player holds, leaves the records, the counts and
\* the dirty flag as they were and sends nothing.
CreationPolicy ==
    [][last'.op = "update_objective" =>
          /\ \A id \in Created(sd') :
                /\ Has(sd', id)
                /\ \/ RecordOf(sd', id).completed # 0
                   \/ \E k \in Slots : RecordOf(sd', id).count[k] # 0
          /\ (/\ last'.arg[1] \in {"AG_BATTLE", "AG_TAMING", "AG_SPEND_ZENY"}
              /\ \A ad \in Range(achievement_db) :
                    ad.group = last'.arg[1] =>
                        ~Has(sd, ad.achievement_id) /\ ZeroProgress(ad, last'.arg[2])) =>
                /\ sd'.fd = <<>>
                /\ DataOf(sd') = DataOf(sd)]_vars

\* A spend of 0 passed the guard of an entry without a record and created none
CreationPolicyWitness ==
    /\ last.op = "update_objective"
    /\ EvGroup = "AG_SPEND_ZENY"
    /\ EvArgs = <<0>>
    /\ sd.fd = <<>>
    /\ \E ad \in ZenyEntries :
          /\ EvCond[ad.achievement_id]
          /\ ~Has(sd, ad.achievement_id)
          /\ \E k \in 1 .. Len(sd.seen) : sd.seen[k].id = ad.achievement_id

\* C20: whenever a guard is evaluated during achievement_update_objective with
\* n arguments, ARGi is the i-th argument of that event for i < n and 0 for
\* i >= n; and when achievement_update_objective returns every ARGi is 0 again,
\* whether or not an entry matched and also after nested completions and a
\* nested level-change event.
TransientArgs ==
    /\ \A k \in 1 .. Len(sd.seen) : sd.seen[k].regs = sd.seen[k].count
    /\ last.op = "update_objective" =>
          /\ \A k \in 1 .. Len(sd.seen) : sd.seen[k].count = ValuesOf(EvArgs)
          /\ \A i \in Slots : sd.regs[i] = 0

\* A guard ran during an event with two arguments that completed its entry and
\* raised the level from 0
TransientArgsWitness ==
    /\ last.op = "update_objective"
    /\ EvArgs = <<1, 1>>
    /\ \A i \in Slots : sd.regs[i] = 0
    /\ \E k \in 1 .. Len(sd.seen) :
          LET id == sd.seen[k].id
          IN /\ sd.seen[k].regs[0] = 1
             /\ sd.seen[k].regs[1] = 1
             /\ sd.seen[k].regs[2] = 0
             /\ id \in Created(sd)
             /\ RecordOf(sd, id).completed # 0
             /\ sd.level >= 1
             /\ sd.total_score - DbFind(id).score <= achievement_level_db[1]

(***************************************************************************)
(* The scan of the catalog by one event.  The catalog is an unordered map: *)
(* the order in which a scan visits its entries is any.                    *)
(***************************************************************************)
\* Three kill counts: one kill of monster 1, two kills of monster 2, and two
\* kills of monster 1 behind the first (its guard keeps it off the unlock scan)
CatalogS ==
    << Def(1, "AG_BATTLE", (0 :> Target(1, 1)), <<>>, FALSE, 1, FALSE, 0),
       Def(2, "AG_BATTLE", (0 :> Target(2, 2)), <<>>, FALSE, 1, FALSE, 0),
       Def(3, "AG_BATTLE", (0 :> Target(2, 1)), <<1>>, TRUE, 1, FALSE, 0) >>

\* Three entries of a guarded group: without a guard, with one, and with one behind the second
CatalogJ ==
    << Def(4, "AG_JOB_CHANGE", NoTargets, <<>>, FALSE, 1, FALSE, 0),
       Def(5, "AG_JOB_CHANGE", NoTargets, <<>>, TRUE, 1, FALSE, 0),
       Def(6, "AG_JOB_CHANGE", NoTargets, <<5>>, TRUE, 1, FALSE, 0) >>

InitScan ==
    \E db \in Orders(CatalogS) \cup Orders(CatalogJ) : InitWith(db, MainLevels)

\* No argument, or the id of a monster
ScanArgs == {<<>>, <<1>>, <<2>>}

NextScan ==
    \/ \E id \in AnyIds : Add(id)
    \/ \E group \in EventGroups, args \in ScanArgs, t \in Times :
           \E cond \in AllConds : Report(group, args, cond, t)

SpecScan == InitScan /\ [][NextScan]_vars

\* The slots of an entry that a kill of the monster advances in the state s
Hits(s, ad, mob) ==
    {k \in DOMAIN ad.targets :
        ad.targets[k].mob = mob /\ Progress(s, ad.achievement_id, k) < ad.targets[k].count}

\* The event (group, args, cond) satisfies the entry in the state s: the entry
\* is of the group, the player may hold its record and has not completed it,
\* and the rule of the group finds something to do
Satisfies(s, ad, group, args, cond) ==
    /\ ad.group = group
    /\ Incomplete(s, ad.achievement_id)
    /\ Has(s, ad.achievement_id) \/ achievement_check_dependent(s, ad.achievement_id)
    /\ IF group \in CondOnlyGroups THEN ad.condition /\ cond[ad.achievement_id]
       ELSE IF group \in {"AG_BATTLE", "AG_TAMING"}
       THEN Hits(s, ad, IF Len(args) > 0 THEN args[1] ELSE 0) # {}
       ELSE FALSE

\* The ids the running handler sent an update for
Touched(s) == {s.fd[j].id : j \in {i \in 1 .. Len(s.fd) : s.fd[i].type = "update"}}

\* C21: the category scan is never cut short.  In one objective-update event
\* every entry of the event's category is evaluated: each entry that the event
\* satisfies is updated (its hit slots are one higher) or completed when the
\* event returns, whatever happened to the other entries of the category
\* (missing guard, failed guard, unmet prerequisites, no matching slot,
\* already completed) and wherever they stand in the scan.
ScanNotCutShort ==
    [][last'.op = "update_objective" =>
          \A ad \in Range(achievement_db) :
              LET id == ad.achievement_id
                  args == last'.arg[2]
              IN Satisfies(sd, ad, last'.arg[1], args, last'.arg[3]) =>
                    /\ Has(sd', id)
                    /\ id \in Touched(sd')
                    /\ \/ RecordOf(sd', id).completed # 0
                       \/ \A k \in Hits(sd, ad, IF Len(args) > 0 THEN args[1] ELSE 0) :
                              RecordOf(sd', id).count[k] = Progress(sd, id, k) + 1]_vars

\* An event updated an entry that the scan visited after two entries of the
\* same category that it left alone
ScanNotCutShortWitness ==
    /\ last.op = "update_objective"
    /\ Len(achievement_db) = 3
    /\ \A k \in 1 .. 3 : achievement_db[k].group = EvGroup
    /\ achievement_db[1].achievement_id \notin Touched(sd)
    /\ achievement_db[2].achievement_id \notin Touched(sd)
    /\ achievement_db[3].achievement_id \in Touched(sd)
    /\ Has(sd, achievement_db[3].achievement_id)

(***************************************************************************)
(* Catalog load.  achievement_db.load() parses the file: a Dependent list  *)
(* takes every id it is given; achievement_read_db then walks each list    *)
(* and erases the ids the catalog does not hold.                           *)
(***************************************************************************)
\* for (int i = 0; i < dependent_ids.size(); i++) if (!exists(dependent_ids[i])) erase(begin() + i);
RECURSIVE EraseUnknown(_, _, _)
EraseUnknown(deps, i, known) ==
    IF i >= Len(deps) THEN deps
    ELSE IF deps[i + 1] \notin known
    THEN EraseUnknown([k \in 1 .. Len(deps) - 1 |-> IF k <= i THEN deps[k] ELSE deps[k + 1]],
                      i + 1, known)
    ELSE EraseUnknown(deps, i + 1, known)

\* The catalog after the loop over the parsed entries
achievement_read_db(parsed) ==
    LET known == {parsed[k].achievement_id : k \in 1 .. Len(parsed)}
    IN [k \in 1 .. Len(parsed) |->
           [parsed[k] EXCEPT !.dependent_ids = EraseUnknown(@, 0, known)]]

\* The ids a Dependent list may name: entries 1 and 2, and two ids of no entry
DepIds == {1, 2, 8, 9}

DepLists == UNION {[1 .. n -> DepIds] : n \in 0 .. MaxDeps}

\* The parsed files: entry 1 with any Dependent list, entry 2 with or without one
ParsedCatalogs ==
    {<< Def(1, "AG_BATTLE", (0 :> Target(1, 1)), d1, FALSE, 1, FALSE, 0),
        Def(2, "AG_ADVENTURE", NoTargets, d2, FALSE, 1, FALSE, 0) >> :
        d1 \in DepLists, d2 \in {<<>>, <<9, 1>>}}

\* Before do_init_achievement both databases are empty
InitLoad ==
    /\ sd = EmptySession
    /\ achievement_db = <<>>
    /\ achievement_level_db = <<>>
    /\ inter = <<>>
    /\ last = Called("init", 0, <<>>)

\* achievement_read_db, at start and at every reload; last keeps the parsed file
ReadDb(parsed) ==
    /\ achievement_db' = achievement_read_db(parsed)
    /\ achievement_level_db' = MainLevels
    /\ last' = Called("read_db", 0, parsed)
    /\ UNCHANGED <<sd, inter>>

NextLoad == \E parsed \in ParsedCatalogs : ReadDb(parsed)

SpecLoad == InitLoad /\ [][NextLoad]_vars

\* C22: catalog load drops unknown prerequisites.  After achievement_read_db,
\* for every definition and whatever its Dependent list held, every id left in
\* the list is the id of a catalog entry, and every listed id that is the id of
\* a catalog entry is still in the list.
LoadDropsUnknown ==
    last.op = "read_db" =>
        \A k \in 1 .. Len(achievement_db) :
            LET listed == Range(last.arg[k].dependent_ids)
                kept == Range(achievement_db[k].dependent_ids)
            IN /\ kept \subseteq DbIds
               /\ listed \cap DbIds \subseteq kept

(***************************************************************************)
(* The reward flow against adds and removes                                *)
(***************************************************************************)
\* C23: reward implies completion.  Through any interleaving of adds, removes,
\* objective events, completions, claims and answers of the inter server, a
\* record with a nonzero rewarded timestamp has a nonzero completed timestamp,
\* and an approval is applied only to a record that is completed and not yet
\* rewarded.
RewardImpliesCompletion ==
    [][/\ \A k \in 1 .. Len(sd'.achievements) :
              sd'.achievements[k].rewarded # 0 => sd'.achievements[k].completed # 0
       /\ (/\ last'.op = "get_reward"
           /\ last'.arg[1] # 0
           /\ Has(sd, last'.id)
           /\ RecordOf(sd', last'.id).rewarded = last'.arg[1])
          => /\ RecordOf(sd, last'.id).completed # 0
             /\ RecordOf(sd, last'.id).rewarded = 0]_vars

(***************************************************************************)
(* The completion cascade on catalogs whose prerequisite lists loop        *)
(***************************************************************************)
\* Two entries that need each other, and an entry that needs itself
CatalogY ==
    << Def(1, "AG_ADVENTURE", NoTargets, <<3>>, FALSE, 1, FALSE, 0),
       Def(3, "AG_ADVENTURE", NoTargets, <<1>>, FALSE, 1, FALSE, 0),
       Def(5, "AG_TAMING", (0 :> Target(1, 1)), <<5>>, FALSE, 1, FALSE, 0) >>

InitCascade ==
    \E db \in {CatalogY, Reverse(CatalogY), CatalogU, CatalogG} : InitWith(db, MainLevels)

SpecCascade == InitCascade /\ [][Next]_vars

\* The ids of the completions the running handler made, in the order it reported them
RECURSIVE CompletionsOf(_)
CompletionsOf(fd) ==
    IF fd = <<>> THEN <<>>
    ELSE (IF Head(fd).type = "update" /\ Head(fd).rec.completed # 0
          THEN <<Head(fd).id>> ELSE <<>>) \o CompletionsOf(Tail(fd))

\* C24: the completion cascade terminates.  Every handler returns, also on a
\* catalog whose prerequisite lists form a cycle or name the entry itself; the
\* completions it made are finitely many, at most one per catalog entry and no
\* entry twice; and in achievement_update_achievement(complete = true) every
\* nested completion is of a record that the cascade created for an entry the
\* player had no record of, so that the entries without a record, which only
\* get fewer, bound the depth of the cascade.
CascadeTerminates ==
    [][LET done == CompletionsOf(sd'.fd)
       IN /\ Len(done) <= Len(achievement_db)
          /\ \A i, j \in 1 .. Len(done) : done[i] = done[j] => i = j
          /\ Len(sd'.hist) = Cardinality(Created(sd'))
          /\ last'.op = "update_achievement" =>
                /\ Range(done) \subseteq Created(sd') \cup {last'.id}
                /\ \A id \in Created(sd') : ~Has(sd, id)
                /\ Len(done) <= 1 + Cardinality({ad \in Range(achievement_db) :
                                                    ~Has(sd, ad.achievement_id)})]_vars

\* Completing one entry of a cycle completed the other one, which the nested
\* scan found without a record, and the nested scan left the first alone
CascadeTerminatesWitness ==
    /\ last.op = "update_achievement"
    /\ \E a, b \in DbIds :
          /\ a # b
          /\ a \in DepsOf(b)
          /\ b \in DepsOf(a)
          /\ last.id = a
          /\ CompletionsOf(sd.fd) = <<b, a>>
          /\ Created(sd) = {b}

(***************************************************************************)
(* The order of the scan.  A reload clears the catalog and reads it again: *)
(* the entries are the same, the order in which the new map hands them to  *)
(* a scan need not be.                                                     *)
(***************************************************************************)
\* The player's records as the claim compares them: id, slot counts, completed or not
RecordSet(s) ==
    {[id |-> s.achievements[k].achievement_id,
      count |-> s.achievements[k].count,
      completed |-> s.achievements[k].completed # 0] : k \in 1 .. Len(s.achievements)}

\* The events of the scan specifications
ScanEvents == EventGroups \X ScanArgs \X Times \X AllConds

\* The records that each event would leave the player with, from the state s
\* and under the order the catalog has now
Outcomes(s) ==
    [e \in ScanEvents |->
        RecordSet(achievement_update_objective(Begin(s), e[1], e[2], Env(e[3], e[4])))]

\* achievement_db_reload; the players' records stay.  last keeps what each
\* event would have given under the order before the reload.
Reload ==
    /\ achievement_db' \in Orders(achievement_db)
    /\ last' = Called("reload", 0, <<Outcomes(sd)>>)
    /\ UNCHANGED <<sd, achievement_level_db, inter>>

NextOrder ==
    \/ NextScan
    \/ Reload

SpecOrder == InitScan /\ [][NextOrder]_vars

\* C25: scan-order independence.  For a fixed catalog, player state and event,
\* the player's set of records (ids, slot counts, completed or not) after
\* achievement_update_objective is the same for every order in which the scan
\* visits the catalog entries: after a reload that only changed that order,
\* every event gives the records it would have given before the reload.
ScanOrderIndependent ==
    last.op = "reload" => Outcomes(sd) = last.arg[1]

(***************************************************************************)
(* The title list                                                          *)
(***************************************************************************)
\* C26: unlocked titles are never duplicated.  After any sequence of
\* achievement_get_titles and approved reward grants, each title id occurs at
\* most once in the player's title list.
TitlesUnique ==
    \A i, j \in 1 .. Len(sd.titles) : sd.titles[i] = sd.titles[j] => i = j

(***************************************************************************)
(* The slot counts of kill records                                         *)
(***************************************************************************)
\* The records of the battle and taming entries
KillRecords ==
    {r \in Range(sd.achievements) :
        DbExists(r.achievement_id) /\ DbFind(r.achievement_id).group \in {"AG_BATTLE", "AG_TAMING"}}

\* C27: bounded counts.  In every state reachable through adds, removes,
\* objective events and completions, each slot count of a battle or taming
\* record is between 0 and the required count of that slot, and every slot
\* that the achievement's definition does not define holds 0.
BoundedCounts ==
    \A r \in KillRecords : \A k \in Slots :
        LET targets == DbFind(r.achievement_id).targets
        IN IF k \in DOMAIN targets
           THEN 0 <= r.count[k] /\ r.count[k] <= targets[k].count
           ELSE r.count[k] = 0

\* A taming event left alone a record that is not completed and has one slot
\* at its required count and another below it
BoundedCountsWitness ==
    /\ last.op = "update_objective"
    /\ last.arg = <<"AG_TAMING">>
    /\ sd.fd = <<>>
    /\ \E r \in KillRecords :
          LET targets == DbFind(r.achievement_id).targets
          IN /\ r.completed = 0
             /\ \E k \in DOMAIN targets : r.count[k] = targets[k].count /\ targets[k].count > 0
             /\ \E k \in DOMAIN targets : r.count[k] < targets[k].count

====
